---- MODULE Spec2Model ----
(***************************************************************************)
(* A model of SiteGrabber's crawl engine (sitegrabber/crawler.py), its URL *)
(* resolver (url_resolver.py) and its path mapper (file_saver.py).         *)
(*                                                                         *)
(* URLs, hrefs and file paths are strings, handled character by character  *)
(* as the Python code handles them.  The characters ";", "[", "]", tab, CR *)
(* and LF do not occur in any string of the model (urlparse never yields   *)
(* params), its upper-case letters are P, D and F, and its percent escapes *)
(* are %2f, %2F, %2e and %20.                                              *)
(***************************************************************************)
EXTENDS Integers, Sequences, FiniteSets, TLC

(***************************************************************************)
(* Python str operations                                                   *)
(***************************************************************************)
\* s.startswith(p)
StartsWith(s, p) == Len(s) >= Len(p) /\ SubSeq(s, 1, Len(p)) = p

\* s.endswith(p)
EndsWith(s, p) == Len(s) >= Len(p) /\ SubSeq(s, Len(s) - Len(p) + 1, Len(s)) = p

\* s[i:] with a 1-based i
From(s, i) == SubSeq(s, i, Len(s))

\* s.find(sub) + 1: the 1-based index of the first occurrence, 0 when absent
Find(s, sub) ==
    LET hits == {i \in 1..(Len(s) - Len(sub) + 1) : SubSeq(s, i, i + Len(sub) - 1) = sub}
    IN  IF hits = {} THEN 0 ELSE CHOOSE i \in hits : \A j \in hits : i <= j

\* sub in s
Contains(s, sub) == Find(s, sub) # 0

\* s.split(sep), a tuple of strings
RECURSIVE Split(_, _)
Split(s, sep) ==
    LET i == Find(s, sep)
    IN  IF i = 0 THEN <<s>>
        ELSE <<SubSeq(s, 1, i - 1)>> \o Split(From(s, i + Len(sep)), sep)

\* sep.join(parts)
RECURSIVE Join(_, _)
Join(parts, sep) ==
    IF Len(parts) = 0 THEN ""
    ELSE IF Len(parts) = 1 THEN parts[1]
    ELSE parts[1] \o sep \o Join(Tail(parts), sep)

\* s.rstrip(chars), chars a set of one-character strings
RECURSIVE RStrip(_, _)
RStrip(s, chars) ==
    IF Len(s) > 0 /\ SubSeq(s, Len(s), Len(s)) \in chars
    THEN RStrip(SubSeq(s, 1, Len(s) - 1), chars) ELSE s

\* s.lstrip(chars)
RECURSIVE LStrip(_, _)
LStrip(s, chars) ==
    IF Len(s) > 0 /\ SubSeq(s, 1, 1) \in chars THEN LStrip(From(s, 2), chars) ELSE s

\* s.strip(chars)
Strip(s, chars) == LStrip(RStrip(s, chars), chars)

\* the whitespace of the model's alphabet (str.strip() with no argument)
Whitespace == {" "}

\* s.replace(old, new)
RECURSIVE Replace(_, _, _)
Replace(s, old, new) ==
    LET i == Find(s, old)
    IN  IF i = 0 THEN s
        ELSE SubSeq(s, 1, i - 1) \o new \o Replace(From(s, i + Len(old)), old, new)

\* c.lower() for one character; the upper-case letters of the alphabet are P, D, F
LowerChar(c) ==
    CASE c = "P" -> "p" [] c = "D" -> "d" [] c = "F" -> "f" [] OTHER -> c

\* s.lower()
RECURSIVE Lower(_)
Lower(s) == IF Len(s) = 0 THEN "" ELSE LowerChar(SubSeq(s, 1, 1)) \o Lower(From(s, 2))

\* the letters of the alphabet (str.isalpha)
Letters ==
    {"a", "b", "c", "d", "e", "f", "g", "h", "i", "j", "k", "l", "m", "n", "o", "p",
     "q", "r", "s", "t", "u", "v", "w", "x", "y", "z", "P", "D", "F"}

\* urllib.parse.scheme_chars
SchemeChars == Letters \cup {"0", "1", "2", "3", "4", "5", "6", "7", "8", "9", "+", "-", "."}

\* every character of s is in chars
AllIn(s, chars) == \A i \in 1..Len(s) : SubSeq(s, i, i) \in chars

\* the smallest of a non-empty set of integers
Min(S) == CHOOSE x \in S : \A y \in S : x <= y

(***************************************************************************)
(* urllib.parse, as url_resolver.py and file_saver.py use it.  A value     *)
(* that the Python code binds once and reads several times is passed on    *)
(* as an operator parameter.                                               *)
(***************************************************************************)
Parsed(scheme, netloc, path, query, fragment) ==
    [scheme |-> scheme, netloc |-> netloc, path |-> path, query |-> query,
     fragment |-> fragment]

\* urlsplit: if '?' in url: url, query = url.split('?', 1)
SplitQuery(scheme, netloc, url, fragment, q) ==
    IF q = 0 THEN Parsed(scheme, netloc, url, "", fragment)
    ELSE Parsed(scheme, netloc, SubSeq(url, 1, q - 1), From(url, q + 1), fragment)

\* urlsplit: if '#' in url: url, fragment = url.split('#', 1)
SplitFragment(scheme, netloc, url, h) ==
    IF h = 0 THEN SplitQuery(scheme, netloc, url, "", Find(url, "?"))
    ELSE SplitQuery(scheme, netloc, SubSeq(url, 1, h - 1), From(url, h + 1),
                    Find(SubSeq(url, 1, h - 1), "?"))

\* _splitnetloc(url, 2): the index of the first of "/", "?", "#" after the "//"
NetlocEnd(url) ==
    LET delims == {j \in 3..Len(url) : SubSeq(url, j, j) \in {"/", "?", "#"}}
    IN  IF delims = {} THEN Len(url) + 1 ELSE Min(delims)

\* urlsplit: if url[:2] == '//': netloc, url = _splitnetloc(url, 2)
SplitNetloc(scheme, url, delim) ==
    IF StartsWith(url, "//")
    THEN SplitFragment(scheme, SubSeq(url, 3, delim - 1), From(url, delim),
                       Find(From(url, delim), "#"))
    ELSE SplitFragment(scheme, "", url, Find(url, "#"))

\* urlsplit: the scheme is what precedes the first ":" when that is a letter
\* followed by scheme characters
SplitScheme(url, default, i) ==
    IF i > 1 /\ SubSeq(url, 1, 1) \in Letters /\ AllIn(SubSeq(url, 1, i - 1), SchemeChars)
    THEN SplitNetloc(Lower(SubSeq(url, 1, i - 1)), From(url, i + 1),
                     NetlocEnd(From(url, i + 1)))
    ELSE SplitNetloc(default, url, NetlocEnd(url))

\* urlparse(url, scheme=default): a record of the components (params is always "")
urlparse_d(url, default) ==
    SplitScheme(LStrip(url, Whitespace), default, Find(LStrip(url, Whitespace), ":"))

urlparse(url) == urlparse_d(url, "")

\* urllib.parse.uses_relative and uses_netloc, restricted to the schemes of the model
UsesRelative == {"", "http", "https", "ftp", "file"}
UsesNetloc == {"", "http", "https", "ftp", "file"}

\* urlunsplit: the query and the fragment appended
WithQuery(url, query, fragment) ==
    (IF query # "" THEN url \o "?" \o query ELSE url)
    \o (IF fragment # "" THEN "#" \o fragment ELSE "")

\* urlunparse((scheme, netloc, path, "", query, fragment))
urlunparse(scheme, netloc, path, query, fragment) ==
    WithQuery((IF scheme # "" THEN scheme \o ":" ELSE "")
              \o (IF netloc # "" \/ (scheme # "" /\ scheme \in UsesNetloc
                                      /\ ~StartsWith(path, "//"))
                  THEN "//" \o netloc \o (IF path # "" /\ ~StartsWith(path, "/")
                                          THEN "/" ELSE "") \o path
                  ELSE path),
              query, fragment)

\* filter(None, parts): the non-empty strings of a tuple
RECURSIVE NonEmpty(_)
NonEmpty(parts) ==
    IF Len(parts) = 0 THEN <<>>
    ELSE (IF parts[1] = "" THEN <<>> ELSE <<parts[1]>>) \o NonEmpty(Tail(parts))

\* urljoin's loop over the segments, resolving "." and ".."
RECURSIVE RemoveDots(_, _)
RemoveDots(segments, resolved) ==
    IF Len(segments) = 0 THEN resolved
    ELSE RemoveDots(Tail(segments),
             IF segments[1] = ".."
             THEN (IF Len(resolved) = 0 THEN resolved
                   ELSE SubSeq(resolved, 1, Len(resolved) - 1))
             ELSE IF segments[1] = "." THEN resolved
             ELSE Append(resolved, segments[1]))

\* urljoin: segments[1:-1] = filter(None, segments[1:-1])
FilterInner(all) ==
    IF Len(all) <= 2 THEN all
    ELSE <<all[1]>> \o NonEmpty(SubSeq(all, 2, Len(all) - 1)) \o <<all[Len(all)]>>

\* urljoin: base_parts, without its last item unless that is ''
BaseParts(bp) == IF bp[Len(bp)] # "" THEN SubSeq(bp, 1, Len(bp) - 1) ELSE bp

\* urljoin: '/'.join(resolved_path) or '/'
JoinedPath(segments) ==
    LET joined == Join(IF segments[Len(segments)] \in {".", ".."}
                       THEN Append(RemoveDots(segments, <<>>), "")
                       ELSE RemoveDots(segments, <<>>), "/")
    IN  IF joined = "" THEN "/" ELSE joined

\* urljoin: the path of the result, from the base path and a non-empty path
MergePaths(bpath, path) ==
    JoinedPath(IF StartsWith(path, "/") THEN Split(path, "/")
               ELSE FilterInner(BaseParts(Split(bpath, "/")) \o Split(path, "/")))

\* urljoin, once base and url are parsed into b and u
JoinParsed(b, u, url) ==
    IF u.scheme # b.scheme \/ u.scheme \notin UsesRelative THEN url
    ELSE IF u.scheme \in UsesNetloc /\ u.netloc # ""
    THEN urlunparse(u.scheme, u.netloc, u.path, u.query, u.fragment)
    ELSE IF u.path = ""
    THEN urlunparse(u.scheme, IF u.scheme \in UsesNetloc THEN b.netloc ELSE u.netloc,
                    b.path, IF u.query = "" THEN b.query ELSE u.query, u.fragment)
    ELSE urlunparse(u.scheme, IF u.scheme \in UsesNetloc THEN b.netloc ELSE u.netloc,
                    MergePaths(b.path, u.path), u.query, u.fragment)

\* urljoin: url is parsed with the base's scheme as its default
JoinBase(b, url) == JoinParsed(b, urlparse_d(url, b.scheme), url)

\* urljoin(base, url)
urljoin(base, url) ==
    IF base = "" THEN url
    ELSE IF url = "" THEN base
    ELSE JoinBase(urlparse(base), url)

(***************************************************************************)
(* url_resolver.py                                                         *)
(***************************************************************************)
\* while "//" in path: path = path.replace("//", "/")
RECURSIVE CollapseSlashes(_)
CollapseSlashes(path) ==
    IF Contains(path, "//") THEN CollapseSlashes(Replace(path, "//", "/")) ELSE path

\* _normalize_url, once the URL is parsed
NormalizeParsed(parsed) ==
    urlunparse(parsed.scheme, parsed.netloc, CollapseSlashes(parsed.path),
               parsed.query, "")

\* _normalize_url(url): the fragment dropped, "//" in the path collapsed
normalize_url(url) == NormalizeParsed(urlparse(url))

\* seq[-i:] and seq[:i] of Python
LastN(seq, i) == SubSeq(seq, IF i >= Len(seq) THEN 1 ELSE Len(seq) - i + 1, Len(seq))
FirstN(seq, i) == SubSeq(seq, 1, IF i >= Len(seq) THEN Len(seq) ELSE i)

\* _fix_overlap: the values of i at which the condition of line 94 holds
OverlapHits(base_segments, href_segments) ==
    {i \in 1..(Len(base_segments) - 1) :
        /\ Join(LastN(base_segments, i), "/") = Join(FirstN(href_segments, i), "/")
        /\ Join(LastN(base_segments, i), "/") # ""}

\* _fix_overlap, lines 95-110: the corrected URL for the overlap of i segments
Corrected(base_parsed, href_parsed, resolved_parsed, base_path, href_segments, i) ==
    urlunparse(base_parsed.scheme, base_parsed.netloc,
               IF RStrip(base_path \o "/"
                         \o Join(SubSeq(href_segments, i + 1, Len(href_segments)), "/"),
                         {"/"}) = ""
               THEN "/"
               ELSE RStrip(base_path \o "/"
                           \o Join(SubSeq(href_segments, i + 1, Len(href_segments)), "/"),
                           {"/"}),
               IF href_parsed.query # "" THEN href_parsed.query ELSE resolved_parsed.query,
               "")

\* _fix_overlap, lines 90-112: the loop returns at the first i that matches
OverlapLoop(base_parsed, href_parsed, resolved_parsed, base_path, href_segments, hits, resolved) ==
    IF hits = {} THEN resolved
    ELSE Corrected(base_parsed, href_parsed, resolved_parsed, base_path, href_segments,
                   Min(hits))

\* _fix_overlap, lines 72-88, once the three URLs are parsed
OverlapParsed(base_parsed, href_parsed, resolved_parsed, base_path, resolved) ==
    OverlapLoop(base_parsed, href_parsed, resolved_parsed, base_path,
                Split(href_parsed.path, "/"),
                OverlapHits(Split(base_path, "/"), Split(href_parsed.path, "/")),
                resolved)

\* resolve_url without the overlap correction: what urljoin gives
fix_overlap_off(base_url, href, resolved) == resolved

\* _fix_overlap(base_url, href, resolved)
fix_overlap(base_url, href, resolved) ==
    IF \/ StartsWith(href, "/") \/ StartsWith(href, "http://")
       \/ StartsWith(href, "https://") \/ StartsWith(href, "//")
    THEN resolved
    ELSE OverlapParsed(urlparse(base_url), urlparse(href), urlparse(resolved),
                       RStrip(urlparse(base_url).path, {"/"}), resolved)

\* resolve_url, lines 32-50: href stripped of whitespace
ResolveStripped(base_url, href) ==
    IF StartsWith(href, "http://") \/ StartsWith(href, "https://")
    THEN normalize_url(href)
    ELSE normalize_url(fix_overlap(base_url, href, urljoin(base_url, href)))

\* resolve_url(base_url, href); "" is "no URL"
resolve_url(base_url, href) ==
    IF \/ href = "" \/ StartsWith(href, "#") \/ StartsWith(href, "javascript:")
       \/ StartsWith(href, "mailto:") \/ StartsWith(href, "tel:")
    THEN ""
    ELSE ResolveStripped(base_url, Strip(href, Whitespace))

\* is_in_scope without the test of lines 183-185: a plain prefix of characters
ScopeParsedPrefix(url_parsed, base_parsed, base_path) ==
    /\ url_parsed.netloc = base_parsed.netloc
    /\ url_parsed.scheme \in {"http", "https"}
    /\ StartsWith(url_parsed.path, base_path)

\* is_in_scope, lines 164-187, once both URLs are parsed
ScopeParsed(url_parsed, base_parsed, base_path) ==
    /\ url_parsed.netloc = base_parsed.netloc
    /\ url_parsed.scheme \in {"http", "https"}
    /\ StartsWith(url_parsed.path, base_path)
    /\ ~(/\ From(url_parsed.path, Len(base_path) + 1) # ""
         /\ ~StartsWith(From(url_parsed.path, Len(base_path) + 1), "/"))

\* is_in_scope(url, base_url)
is_in_scope(url, base_url) ==
    IF url = "" THEN FALSE
    ELSE ScopeParsed(urlparse(url), urlparse(base_url),
                     RStrip(urlparse(base_url).path, {"/"}))

(***************************************************************************)
(* file_saver.py                                                           *)
(***************************************************************************)
\* the character class [<>:"/\\|?*] of the three sanitizers
UnsafeChars == {"<", ">", ":", "\"", "/", "\\", "|", "?", "*"}

\* re.sub(r'[<>:"/\\|?*]', "_", s)
RECURSIVE SubUnsafe(_)
SubUnsafe(s) ==
    IF Len(s) = 0 THEN ""
    ELSE (IF SubSeq(s, 1, 1) \in UnsafeChars THEN "_" ELSE SubSeq(s, 1, 1))
         \o SubUnsafe(From(s, 2))

\* urllib.parse.unquote on the escapes of the alphabet: %2f, %2F, %2e, %20
unquote(s) ==
    Replace(Replace(Replace(Replace(s, "%2f", "/"), "%2F", "/"), "%2e", "."), "%20", " ")

\* os.path.join(a, b) and os.path.basename(p) on POSIX
PathJoin(a, b) ==
    IF StartsWith(b, "/") THEN b
    ELSE IF a = "" \/ EndsWith(a, "/") THEN a \o b
    ELSE a \o "/" \o b

basename(p) == From(p, Len(p) - Len(LastN(Split(p, "/"), 1)[1]) + 1)

\* the truncation length of _sanitize_query
QueryCap == 200

\* _sanitize_query: if len(result) > 200: result = result[:200]
Truncate(result) == IF Len(result) > QueryCap THEN SubSeq(result, 1, QueryCap) ELSE result

\* _sanitize_query(query)
sanitize_query(query) == Truncate(SubUnsafe(Replace(Replace(query, "=", "--"), "&", "_")))

\* _sanitize_filename, lines 209-212: the extension check
EnsureExtension(sanitized) ==
    IF EndsWith(Lower(sanitized), ".html") \/ EndsWith(Lower(sanitized), ".pdf")
    THEN sanitized ELSE sanitized \o ".html"

\* _sanitize_filename, lines 205-207: if not sanitized: sanitized = "page.html"
OrPageHtml(sanitized) == IF sanitized = "" THEN "page.html" ELSE sanitized

\* _sanitize_filename(filename)
sanitize_filename(filename) ==
    EnsureExtension(OrPageHtml(Strip(SubUnsafe(filename), {".", " "})))

\* the loop of _sanitize_path: the cleaned, non-empty parts
RECURSIVE CleanParts(_)
CleanParts(parts) ==
    IF Len(parts) = 0 THEN <<>>
    ELSE (IF Strip(SubUnsafe(parts[1]), {".", " "}) # ""
          THEN <<Strip(SubUnsafe(parts[1]), {".", " "})>> ELSE <<>>)
         \o CleanParts(Tail(parts))

\* _sanitize_path leaving the path as it came
sanitize_path_raw(path) == path

\* _sanitize_path(path)
sanitize_path(path) == Join(CleanParts(Split(path, "/")), "/")

\* url_to_filepath, lines 76-84: the path built from sub_dir and filename
BuildPath(output_folder, sub_dir, filename) ==
    IF sub_dir # "" THEN PathJoin(PathJoin(output_folder, sub_dir), filename)
    ELSE PathJoin(output_folder, filename)

\* url_to_filepath with no mirroring subdirectory
ChoosePathFlat(output_folder, relative_path, query_part) ==
    PathJoin(output_folder,
             sanitize_filename(IF query_part # "" THEN query_part \o ".html"
                               ELSE "index.html"))

\* url_to_filepath, lines 57-78: the filename and sub_dir chosen and sanitized
ChoosePath(output_folder, relative_path, query_part) ==
    BuildPath(output_folder,
              IF relative_path # "" THEN sanitize_path(relative_path) ELSE "",
              sanitize_filename(IF query_part # "" THEN query_part \o ".html"
                                ELSE "index.html"))

\* url_to_filepath, lines 40-55: the relative path and the query part
RelativePath(url_path, base_path) ==
    unquote(Strip(IF StartsWith(url_path, base_path)
                  THEN From(url_path, Len(base_path) + 1) ELSE url_path, {"/"}))

\* url_to_filepath, once the URL is parsed and the base path stripped
FilepathParsed(url_parsed, base_path, output_folder) ==
    ChoosePath(output_folder, RelativePath(url_parsed.path, base_path),
               IF url_parsed.query # "" THEN sanitize_query(url_parsed.query) ELSE "")

\* url_to_filepath(url, base_url, output_folder)
url_to_filepath(url, base_url, output_folder) ==
    FilepathParsed(urlparse(url), RStrip(urlparse(base_url).path, {"/"}), output_folder)

\* pdf_url_to_filepath, lines 163-165: the extension forced
ForcePdf(filename) ==
    IF EndsWith(Lower(filename), ".pdf") THEN filename ELSE filename \o ".pdf"

\* pdf_url_to_filepath, lines 161-162: os.path.basename(path) or "download.pdf"
OrDownload(b) == IF b = "" THEN "download.pdf" ELSE b

\* pdf_url_to_filepath(url, output_folder)
pdf_url_to_filepath(url, output_folder) ==
    PathJoin(output_folder,
             ForcePdf(sanitize_filename(OrDownload(basename(unquote(urlparse(url).path))))))

(***************************************************************************)
(* The site being crawled and the run configuration                        *)
(***************************************************************************)
\* config.input_address and config.output_folder
InputAddress == "https://x.test/docs/v1"
OutputFolder == "out"

U_topic == "https://x.test/docs/v1?topic=a"
U_sub == "https://x.test/docs/v1/sub"
U_subslash == "https://x.test/docs/v1/sub/"
U_pdf == "https://cdn.test/file.pdf"
U_viewer == "https://cdn.test/viewer?file=a.pdf"

\* A document is the tuple of its href attribute values in source order
\* (every href belongs to an anchor), the hrefs of each div that matches the
\* configured attribute filter (divs), and whether it has no bytes at all.
Doc(hrefs, divs) == [hrefs |-> hrefs, divs |-> divs, empty |-> FALSE]
EmptyDoc == [hrefs |-> <<>>, divs |-> <<>>, empty |-> TRUE]
PdfBytes == [hrefs |-> <<>>, divs |-> <<>>, empty |-> FALSE]

\* What the site serves at each URL.
Page(url) ==
    CASE url = InputAddress ->
            Doc(<<"/docs/v1?topic=a", "docs/v1/sub", "https://cdn.test/file.pdf">>,
                << <<"/docs/v1?topic=a", "docs/v1/sub">> >>)
      [] url = U_topic ->
            Doc(<<"docs/v1/sub", "#top", "mailto:a@x.test", "/docs/v1",
                  "/other", "/docs/v1-extra">>, <<>>)
      [] url = U_sub ->
            Doc(<<"/docs/v1/sub/", "https://cdn.test/viewer?file=a.pdf", "../v1/sub#s">>, <<>>)
      [] url = U_subslash -> Doc(<<"../sub", "javascript:void(0)">>, <<>>)
      [] url = U_viewer -> Doc(<<"/private", "file.pdf">>, <<>>)
      [] OTHER -> Doc(<<>>, <<>>)

\* The URLs that have a document with links, and every href of those
\* documents, as written and as the regex branch cuts it at "#".
SiteUrls == {InputAddress, U_topic, U_sub, U_subslash, U_viewer}
SiteHrefs ==
    UNION {{Page(u).hrefs[i] : i \in 1..Len(Page(u).hrefs)}
           \cup {Strip(Split(Page(u).hrefs[i], "#")[1], Whitespace) :
                    i \in 1..Len(Page(u).hrefs)} : u \in SiteUrls}

\* resolve_url for the pages and hrefs of the site, computed once
ResolveTable == [b \in SiteUrls |-> [h \in SiteHrefs |-> resolve_url(b, h)]]

\* resolve_url(page_url, href) as the crawler calls it
Resolved(page_url, href) == ResolveTable[page_url][href]

\* every URL a link of the site resolves to, and the seed
LinkUrls ==
    {RStrip(InputAddress, {"/"})}
    \cup ({ResolveTable[b][h] : b \in SiteUrls, h \in SiteHrefs} \ {""})

\* is_in_scope(url, config.input_address) for the URLs of the site, computed once
ScopeTable == [u \in LinkUrls |-> is_in_scope(u, InputAddress)]

\* is_in_scope(resolved, self.config.input_address) as the crawler calls it
InScope(url) == ScopeTable[url]

\* the largest --max-pages the model configures (0 = unlimited)
MaxPagesCfg == 2

\* the number of targets at which the transport or the filesystem does
\* anything but serve the document and store it
MaxIrregular == 1

\* CrawlConfig: the fields the crawl engine branches on.  limited stands for
\* limitation_type and limitation_text both set, login for login_url,
\* login_email and login_password all set.
Configs ==
    {c \in [resume : BOOLEAN, recursive : BOOLEAN, content_types : {"html", "pdf", "all"},
            max_pages : 0..MaxPagesCfg, browser : BOOLEAN, login : BOOLEAN,
            limited : BOOLEAN] :
        c.login => c.browser}

(***************************************************************************)
(* html_filter.py and the link extraction of crawler.py                    *)
(***************************************************************************)
\* href.lower().endswith(".pdf")
EndsPdf(h) == EndsWith(Lower(h), ".pdf")

\* the content-policy partition (html / pdf / all) of one href
KeepByPolicy(h, content_types) ==
    CASE content_types = "pdf" -> EndsPdf(h)
      [] content_types = "html" -> ~EndsPdf(h)
      [] OTHER -> TRUE

\* filter_html without the fallback of lines 47-51
filter_html_strict(doc, limited) == IF ~limited THEN <<doc.hrefs>> ELSE doc.divs

\* what filter_html prints (lines 48-50 and 53)
filter_diagnostic(doc, limited) ==
    IF ~limited THEN ""
    ELSE IF doc.divs = <<>> THEN "Falling back to full document for link extraction"
    ELSE "Found matching div(s)"

\* filter_html(soup, limitation_type, limitation_text): the searchable scopes,
\* each the tuple of its anchors' hrefs; never the empty list
filter_html(doc, limited) ==
    IF ~limited THEN <<doc.hrefs>>
    ELSE IF doc.divs = <<>> THEN <<doc.hrefs>>
    ELSE doc.divs

\* all the tuples of a tuple of tuples, concatenated
RECURSIVE Flatten(_)
Flatten(ss) == IF Len(ss) = 0 THEN <<>> ELSE ss[1] \o Flatten(Tail(ss))

\* the loop of extract_links over the anchors, with its seen set
RECURSIVE ExtractLoop(_, _, _)
ExtractLoop(raw, content_types, seen) ==
    IF Len(raw) = 0 THEN <<>>
    ELSE LET href == Strip(raw[1], Whitespace)
             keep == href # "" /\ href \notin seen /\ KeepByPolicy(href, content_types)
         IN  (IF keep THEN <<href>> ELSE <<>>)
             \o ExtractLoop(Tail(raw), content_types, IF keep THEN seen \cup {href} ELSE seen)

\* extract_links(elements, content_types)
extract_links(elements, content_types) == ExtractLoop(Flatten(elements), content_types, {})

\* the regex branch of _extract_and_queue_links: every href of the source
RECURSIVE regex_hrefs(_, _)
regex_hrefs(raw, content_types) ==
    IF Len(raw) = 0 THEN <<>>
    ELSE LET h == Strip(Split(raw[1], "#")[1], Whitespace)
             skip == \/ h = "" \/ StartsWith(h, "javascript:")
                     \/ StartsWith(h, "mailto:") \/ StartsWith(h, "data:")
         IN  (IF ~skip /\ KeepByPolicy(h, content_types) THEN <<h>> ELSE <<>>)
             \o regex_hrefs(Tail(raw), content_types)

\* the loop of _grab_toc_links that deduplicates the container's hrefs
RECURSIVE TocLoop(_, _)
TocLoop(raw, seen) ==
    IF Len(raw) = 0 THEN <<>>
    ELSE LET h == raw[1]
             keep == /\ h \notin seen /\ ~StartsWith(h, "#")
                     /\ ~StartsWith(h, "javascript:") /\ ~StartsWith(h, "mailto:")
         IN  (IF keep THEN <<h>> ELSE <<>>)
             \o TocLoop(Tail(raw), IF keep THEN seen \cup {h} ELSE seen)

\* _grab_toc_links(html): the hrefs of the first matching container
grab_toc_links(doc, limited) ==
    IF ~limited THEN <<>>
    ELSE IF doc.divs = <<>> THEN <<>>
    ELSE TocLoop(doc.divs[1], {})

\* Enqueue without self.queued.add(url)
EnqueueUnmarked(fr, url) ==
    [queue |-> Append(fr.queue, url), queued |-> fr.queued, log |-> Append(fr.log, url)]

\* The frontier's queue, its dedup set, and the log of every append.
\* self.queue.append(url); self.queued.add(url)
Enqueue(fr, url) ==
    [queue |-> Append(fr.queue, url), queued |-> fr.queued \cup {url},
     log |-> Append(fr.log, url)]

\* _is_pdf_url(url)
is_pdf_url(url) == EndsWith(Lower(urlparse(url).path), ".pdf")

\* _is_pdf_url for the URLs of the site, computed once
PdfTable == [u \in LinkUrls |-> is_pdf_url(u)]

\* self._is_pdf_url(url) as _process_url calls it
IsPdf(url) == PdfTable[url]

\* the test of _extract_and_queue_links that lets a resolved link skip the
\* scope check
LinkIsPdf(resolved) == EndsWith(Lower(resolved), ".pdf")

\* the same test for the URLs of the site, computed once
LinkPdfTable == [u \in LinkUrls |-> LinkIsPdf(u)]

\* the enqueue loop's body without the test of self.queued (lines 902-903)
QueueLinkUnchecked(fr, resolved) ==
    IF resolved = "" THEN fr
    ELSE IF ~LinkPdfTable[resolved] /\ ~InScope(resolved) THEN fr
    ELSE Enqueue(fr, resolved)

\* the body of the enqueue loop of _extract_and_queue_links (lines 897-917)
QueueLink(fr, resolved) ==
    IF resolved = "" THEN fr
    ELSE IF resolved \in fr.queued THEN fr
    ELSE IF ~LinkPdfTable[resolved] /\ ~InScope(resolved) THEN fr
    ELSE Enqueue(fr, resolved)

\* the enqueue loop of _extract_and_queue_links
RECURSIVE QueueLinks(_, _, _)
QueueLinks(hrefs, page_url, fr) ==
    IF Len(hrefs) = 0 THEN fr
    ELSE QueueLinks(Tail(hrefs), page_url, QueueLink(fr, Resolved(page_url, hrefs[1])))

\* the documents of a run: what the site serves, the document of no bytes,
\* the bytes of an attachment
Docs == {Page(u) : u \in SiteUrls} \cup {EmptyDoc, PdfBytes}

\* the hrefs _extract_and_queue_links gets from a document (lines 862-894),
\* by its filtered branch or by its regex branch, computed once
HrefTable ==
    [doc \in Docs |-> [content_types \in {"html", "pdf", "all"} |->
        [filtered \in BOOLEAN |->
            IF filtered THEN extract_links(filter_html(doc, TRUE), content_types)
            ELSE regex_hrefs(doc.hrefs, content_types)]]]

\* _grab_toc_links for the documents of a run, computed once
TocTable == [doc \in Docs |-> [limited \in BOOLEAN |-> grab_toc_links(doc, limited)]]

\* _extract_and_queue_links(html, page_url)
extract_and_queue_links(doc, page_url, cfg, fr) ==
    QueueLinks(HrefTable[doc][cfg.content_types]
                   [RStrip(page_url, {"/"}) = RStrip(InputAddress, {"/"}) /\ cfg.limited],
               page_url, fr)

\* the body of the loop of _download_browser that queues the TOC links
QueueTocLink(fr, resolved) ==
    IF resolved # "" /\ resolved \notin fr.queued /\ InScope(resolved)
    THEN Enqueue(fr, resolved) ELSE fr

\* the loop of _download_browser that queues the TOC links (lines 676-688)
RECURSIVE QueueToc(_, _, _)
QueueToc(hrefs, page_url, fr) ==
    IF Len(hrefs) = 0 THEN fr
    ELSE QueueToc(Tail(hrefs), page_url, QueueTocLink(fr, Resolved(page_url, hrefs[1])))

(***************************************************************************)
(* The retry-wrapped fetchers of crawler.py, one transport attempt at a    *)
(* time.  An attempt's outcome o is a response (its status, whether its    *)
(* Content-Type is a markup type, whether its body is empty), no response  *)
(* at all (browser), or an exception.                                      *)
(***************************************************************************)
max_retries == 3

Statuses == {200, 404, 429, 500}

Resp(status, markup, empty) ==
    [kind |-> "resp", status |-> status, markup |-> markup, empty |-> empty]
Exc(kind) == [kind |-> kind, status |-> 0, markup |-> FALSE, empty |-> FALSE]

\* session.get for a page: any status with either kind of Content-Type, or a
\* ConnectionError, a Timeout, or another RequestException
HttpOutcomes ==
    {o \in {Resp(st, m, e) : st \in Statuses, m \in BOOLEAN, e \in BOOLEAN} :
        o.empty => (o.status = 200 /\ o.markup)}
    \cup {Exc("conn"), Exc("timeout"), Exc("other")}

\* session.get for an attachment: the Content-Type is not looked at
BinaryOutcomes ==
    {o \in {Resp(st, FALSE, e) : st \in Statuses, e \in BOOLEAN} :
        o.empty => o.status = 200}
    \cup {Exc("conn"), Exc("timeout"), Exc("other")}

\* page.goto: a response (whose Content-Type is not looked at), None, or an
\* exception (a timeout or another error)
BrowserOutcomes ==
    {o \in {Resp(st, m, e) : st \in Statuses, m \in BOOLEAN, e \in BOOLEAN} :
        o.empty => (o.status = 200 /\ o.markup)}
    \cup {Exc("none"), Exc("timeout"), Exc("other")}

\* str(e) of the exceptions
ErrorStr(kind) ==
    CASE kind = "timeout" -> "Timeout 30000ms exceeded."
      [] OTHER -> "Exceeded 30 redirects."

\* f"HTTP {status}"
HttpReason(status) == "HTTP " \o ToString(status)

\* What one attempt leads to: next is "ok" (content returned), "retry"
\* (another attempt, numbered attempt), "fail" (ledger entry reason, None
\* returned) or "none" (None returned, no ledger entry); wait is the sleep.
Result(next, reason, wait, backoff, attempt) ==
    [next |-> next, reason |-> reason, wait |-> wait, backoff |-> backoff,
     attempt |-> attempt]

\* _download as it is, but the 429 branch retries whatever the attempt number
download_unbounded(attempt, backoff, o) ==
    IF o.kind = "resp"
    THEN IF ~o.markup THEN Result("none", "", 0, backoff, attempt)
         ELSE IF o.status < 400 THEN Result("ok", "", 0, backoff, attempt)
         ELSE IF o.status = 404 THEN Result("fail", HttpReason(o.status), 0, backoff, attempt)
         ELSE IF o.status = 429
         THEN Result("retry", "", backoff * 5, backoff * 2, attempt + 1)
         ELSE IF attempt < max_retries
         THEN Result("retry", "", backoff, backoff * 2, attempt + 1)
         ELSE Result("fail", HttpReason(o.status), 0, backoff, attempt)
    ELSE IF o.kind = "conn"
    THEN IF attempt < max_retries
         THEN Result("retry", "", backoff, backoff * 2, attempt + 1)
         ELSE Result("fail", "Connection error", 0, backoff, attempt)
    ELSE IF o.kind = "timeout"
    THEN IF attempt < max_retries
         THEN Result("retry", "", backoff, backoff * 2, attempt + 1)
         ELSE Result("fail", "Timeout", 0, backoff, attempt)
    ELSE Result("fail", ErrorStr(o.kind), 0, backoff, attempt)

\* _download sleeping the same backoff before every retry
download_flat(attempt, backoff, o) ==
    IF o.kind = "resp"
    THEN IF ~o.markup THEN Result("none", "", 0, backoff, attempt)
         ELSE IF o.status < 400 THEN Result("ok", "", 0, backoff, attempt)
         ELSE IF o.status = 404 THEN Result("fail", HttpReason(o.status), 0, backoff, attempt)
         ELSE IF o.status = 429
         THEN Result(IF attempt < max_retries THEN "retry" ELSE "none", "",
                     backoff * 5, backoff, attempt + 1)
         ELSE IF attempt < max_retries
         THEN Result("retry", "", backoff, backoff, attempt + 1)
         ELSE Result("fail", HttpReason(o.status), 0, backoff, attempt)
    ELSE IF o.kind \in {"conn", "timeout"}
    THEN IF attempt < max_retries
         THEN Result("retry", "", backoff, backoff, attempt + 1)
         ELSE Result("fail", IF o.kind = "conn" THEN "Connection error" ELSE "Timeout",
                     0, backoff, attempt)
    ELSE Result("fail", ErrorStr(o.kind), 0, backoff, attempt)

\* one iteration of the loop of _download
download(attempt, backoff, o) ==
    IF o.kind = "resp"
    THEN IF ~o.markup THEN Result("none", "", 0, backoff, attempt)
         ELSE IF o.status < 400 THEN Result("ok", "", 0, backoff, attempt)
         ELSE IF o.status = 404 THEN Result("fail", HttpReason(o.status), 0, backoff, attempt)
         ELSE IF o.status = 429
         THEN Result(IF attempt < max_retries THEN "retry" ELSE "none", "",
                     backoff * 5, backoff * 2, attempt + 1)
         ELSE IF attempt < max_retries
         THEN Result("retry", "", backoff, backoff * 2, attempt + 1)
         ELSE Result("fail", HttpReason(o.status), 0, backoff, attempt)
    ELSE IF o.kind = "conn"
    THEN IF attempt < max_retries
         THEN Result("retry", "", backoff, backoff * 2, attempt + 1)
         ELSE Result("fail", "Connection error", 0, backoff, attempt)
    ELSE IF o.kind = "timeout"
    THEN IF attempt < max_retries
         THEN Result("retry", "", backoff, backoff * 2, attempt + 1)
         ELSE Result("fail", "Timeout", 0, backoff, attempt)
    ELSE Result("fail", ErrorStr(o.kind), 0, backoff, attempt)

\* one iteration of the loop of _download_binary
download_binary(attempt, backoff, o) ==
    IF o.kind = "resp"
    THEN IF o.status < 400 THEN Result("ok", "", 0, backoff, attempt)
         ELSE IF o.status = 404 THEN Result("fail", HttpReason(o.status), 0, backoff, attempt)
         ELSE IF attempt < max_retries
         THEN Result("retry", "", backoff, backoff * 2, attempt + 1)
         ELSE Result("fail", HttpReason(o.status), 0, backoff, attempt)
    ELSE IF o.kind \in {"conn", "timeout"}
    THEN IF attempt < max_retries
         THEN Result("retry", "", backoff, backoff * 2, attempt + 1)
         ELSE Result("fail", "Connection/Timeout", 0, backoff, attempt)
    ELSE Result("fail", ErrorStr(o.kind), 0, backoff, attempt)

\* one iteration of the loop of _download_browser
download_browser(attempt, backoff, o) ==
    IF o.kind = "none" THEN Result("none", "", 0, backoff, attempt)
    ELSE IF o.kind = "resp"
    THEN IF o.status = 404 THEN Result("fail", HttpReason(o.status), 0, backoff, attempt)
         ELSE IF o.status = 429
         THEN Result(IF attempt < max_retries THEN "retry" ELSE "none", "",
                     backoff * 5, backoff * 2, attempt + 1)
         ELSE IF o.status >= 400
         THEN IF attempt < max_retries
              THEN Result("retry", "", backoff, backoff * 2, attempt + 1)
              ELSE Result("fail", HttpReason(o.status), 0, backoff, attempt)
         ELSE Result("ok", "", 0, backoff, attempt)
    ELSE IF attempt < max_retries
    THEN Result("retry", "", backoff, backoff * 2, attempt + 1)
    ELSE Result("fail", ErrorStr(o.kind), 0, backoff, attempt)

(***************************************************************************)
(* The crawler's state                                                     *)
(***************************************************************************)
VARIABLES
    config,        \* the CrawlConfig of the run
    queue,         \* self.queue
    visited,       \* self.visited
    queued,        \* self.queued
    failed,        \* self.failed: URL -> reason
    saved_count,   \* self.saved_count
    toc_expanded,  \* self._toc_expanded
    browser_up,    \* the Playwright browser is started and not yet closed
    disk,          \* the output folder: path -> document written there
    pc,            \* "new", "loop", "fetch", "done", "exit", "aborted"
    cur,           \* the URL being fetched ("" outside a fetch)
    fetcher,       \* "http", "binary" or "browser": the download method running
    attempt,       \* the loop variable of the running download method
    backoff,       \* its backoff
    enq_log,       \* history: every URL appended to the queue, in order
    proc_log,      \* history: one record per call of _process_url, in order
    outs,          \* history: the attempt outcomes of the latest download
    waits,         \* history: the sleeps of the latest download
    irregular,     \* the number of targets with an irregular outcome so far
    cur_irregular, \* the target being fetched is one of them
    earlier,       \* history: proc_log and disk at the end of the run before this one
    call,          \* a call of url_resolver made on its own: arguments and result
    depth          \* history: the link depth at which each URL was enqueued

vars == <<config, queue, visited, queued, failed, saved_count, toc_expanded,
          browser_up, disk, pc, cur, fetcher, attempt, backoff, enq_log,
          proc_log, outs, waits, irregular, cur_irregular, earlier, call, depth>>

\* file_exists with the size test the wrong way round
file_exists_empty(d, filepath) == filepath \in DOMAIN d /\ d[filepath].empty

\* file_exists(filepath): a file, and not of size 0
file_exists(d, filepath) == filepath \in DOMAIN d /\ ~d[filepath].empty

\* the path a target is saved to (_process_pdf_url line 534, _process_html_url line 558)
FilePath(url) ==
    IF is_pdf_url(url) THEN pdf_url_to_filepath(url, OutputFolder)
    ELSE url_to_filepath(url, InputAddress, OutputFolder)

\* the same for the URLs of the site, computed once
PathTable == [u \in LinkUrls |-> FilePath(u)]

\* a mapping that numbers the files by the count of pages saved so far
MappedPathNumbered(url) == PathJoin(OutputFolder, "page" \o ToString(saved_count) \o ".html")

\* the path of a URL of the site
MappedPath(url) == PathTable[url]

\* the output folders a run may start with: nothing, or the files of an
\* earlier crawl, one of them of size 0
InitialDisks ==
    {<<>>,
     ("out/index.html" :> Page(InputAddress)) @@ ("out/sub/index.html" :> Page(U_sub))
        @@ ("out/file.pdf" :> PdfBytes) @@ ("out/topic--a.html" :> EmptyDoc)}

\* the history of a first run
NoEarlier == [log |-> <<>>, disk |-> <<>>]

\* no call of url_resolver on its own: the crawler makes its calls itself
NoCall ==
    [fn |-> "", base |-> "", arg |-> "", done |-> FALSE, result |-> "", holds |-> FALSE]

\* Crawler.__init__
Init ==
    /\ config \in Configs
    /\ disk \in InitialDisks
    /\ (~config.resume => disk = <<>>)
    /\ queue = <<>>
    /\ visited = {}
    /\ queued = {}
    /\ failed = <<>>
    /\ saved_count = 0
    /\ toc_expanded = FALSE
    /\ browser_up = FALSE
    /\ pc = "new"
    /\ cur = ""
    /\ fetcher = "http"
    /\ attempt = 0
    /\ backoff = 0
    /\ enq_log = <<>>
    /\ depth = <<>>
    /\ proc_log = <<>>
    /\ outs = <<>>
    /\ waits = <<>>
    /\ irregular = 0
    /\ cur_irregular = FALSE
    /\ earlier = NoEarlier
    /\ call = NoCall

\* the frontier as QueueLinks threads it
Frontier(q) == [queue |-> q, queued |-> queued, log |-> enq_log]

\* parent is the page whose links are queued ("" for the seed)
SetFrontier(fr, parent) ==
    /\ queue' = fr.queue
    /\ queued' = fr.queued
    /\ enq_log' = fr.log
    /\ depth' = [u \in {fr.log[i] : i \in 1..Len(fr.log)} |->
                    IF u \in DOMAIN depth THEN depth[u]
                    ELSE IF parent \in DOMAIN depth THEN depth[parent] + 1 ELSE 0]

\* crawl(), lines 67-107, when the browser (if asked for) starts: the seed is queued
StartCrawl ==
    /\ pc = "new"
    /\ SetFrontier(Enqueue(Frontier(queue), RStrip(InputAddress, {"/"})), "")
    /\ browser_up' = config.browser
    /\ pc' = "loop"
    /\ UNCHANGED <<call, config, visited, failed, saved_count, toc_expanded, disk, cur,
                   fetcher, attempt, backoff, proc_log, outs, waits, irregular,
                   cur_irregular, earlier>>

\* crawl() going on to its loop although _init_browser got no browser
StartCrawlUnchecked ==
    /\ pc = "new"
    /\ config.browser
    /\ SetFrontier(Enqueue(Frontier(queue), RStrip(InputAddress, {"/"})), "")
    /\ pc' = "loop"
    /\ UNCHANGED <<call, config, visited, failed, saved_count, toc_expanded, browser_up,
                   disk, cur, fetcher, attempt, backoff, proc_log, outs, waits,
                   irregular, cur_irregular, earlier>>

\* crawl(), lines 67-99, when _init_browser raises SystemExit(1)
StartCrawlNoBrowser ==
    /\ pc = "new"
    /\ config.browser
    /\ SetFrontier(Enqueue(Frontier(queue), RStrip(InputAddress, {"/"})), "")
    /\ pc' = "exit"
    /\ UNCHANGED <<call, config, visited, failed, saved_count, toc_expanded, browser_up,
                   disk, cur, fetcher, attempt, backoff, proc_log, outs, waits,
                   irregular, cur_irregular, earlier>>

\* crawl(), lines 67-107, when the browser has started and the login step
\* does not return: _transfer_browser_cookies raises (the browser window was
\* closed, the context is gone), or the run is interrupted during
\* _browser_login; this is before the try of line 109, so the finally clause
\* does not run
StartCrawlLoginAborts ==
    /\ pc = "new"
    /\ config.login
    /\ SetFrontier(Enqueue(Frontier(queue), RStrip(InputAddress, {"/"})), "")
    /\ browser_up' = TRUE
    /\ pc' = "aborted"
    /\ UNCHANGED <<call, config, visited, failed, saved_count, toc_expanded, disk, cur,
                   fetcher, attempt, backoff, proc_log, outs, waits, irregular,
                   cur_irregular, earlier>>

\* the check of lines 112-114 with > for >=
BudgetExceeded == config.max_pages > 0 /\ saved_count > config.max_pages

\* the check of lines 112-114
BudgetReached == config.max_pages > 0 /\ saved_count >= config.max_pages

\* the loop of crawl() ends at the break of line 114 only
FinishOnBudget ==
    /\ pc = "loop"
    /\ BudgetReached
    /\ browser_up' = FALSE
    /\ pc' = "done"
    /\ UNCHANGED <<call, config, queue, visited, queued, failed, saved_count, toc_expanded,
                   disk, cur, fetcher, attempt, backoff, depth, enq_log, proc_log, outs,
                   waits, irregular, cur_irregular, earlier>>

\* the loop of crawl() ends (queue empty, or the break of line 114); the
\* finally clause closes the browser and the summary is printed
Finish ==
    /\ pc = "loop"
    /\ (queue = <<>> \/ BudgetReached)
    /\ browser_up' = FALSE
    /\ pc' = "done"
    /\ UNCHANGED <<call, config, queue, visited, queued, failed, saved_count, toc_expanded,
                   disk, cur, fetcher, attempt, backoff, depth, enq_log, proc_log, outs,
                   waits, irregular, cur_irregular, earlier>>

\* the file is known to decode: save_page wrote it as UTF-8 text, in this
\* run or in the run before it, or this run has already read it back
KnownUtf8(filepath) ==
    \/ \E i \in 1..Len(proc_log) :
          proc_log[i].path = filepath /\ proc_log[i].result \in {"saved", "resumed"}
    \/ \E i \in 1..Len(earlier.log) :
          earlier.log[i].path = filepath /\ earlier.log[i].result = "saved"

\* what reading a saved page back does (_extract_links_from_file, 933-939)
ReadOutcomes == {"read", "oserror", "undecodable"}

\* the record proc_log gets when _process_url(url) is called
LogEntry(url, is_pdf, filepath, result) ==
    [url |-> url, kind |-> IF is_pdf THEN "PDF" ELSE "HTML", path |-> filepath,
     result |-> result]

\* the download method _process_html_url picks (lines 575-582)
HtmlFetcher ==
    IF config.browser /\ (config.login \/ ~toc_expanded) THEN "browser" ELSE "http"

\* _process_pdf_url / _process_html_url up to the first transport call: the
\* resume check (537-540, 561-568), or the start of a download
ProcessTarget(url, popped, is_pdf, filepath) ==
    IF config.resume /\ file_exists(disk, filepath)
    THEN /\ saved_count' = saved_count + 1
         /\ proc_log' = Append(proc_log, LogEntry(url, is_pdf, filepath, "resumed"))
         /\ IF ~is_pdf /\ config.recursive
            THEN \* _extract_links_from_file: the file is read; or open() raises
                 \* OSError, which is caught; or its bytes are not UTF-8 and
                 \* read() raises UnicodeDecodeError, which nothing catches
                 \* before the finally clause of crawl()
                 \E read \in ReadOutcomes :
                    /\ (read # "read" => irregular < MaxIrregular)
                    /\ (read = "undecodable" => ~KnownUtf8(filepath))
                    /\ irregular' = IF read = "read" THEN irregular ELSE irregular + 1
                    /\ SetFrontier(IF read = "read"
                                   THEN extract_and_queue_links(disk[filepath], url,
                                                                config, Frontier(popped))
                                   ELSE Frontier(popped), url)
                    /\ pc' = IF read = "undecodable" THEN "aborted" ELSE pc
                    /\ browser_up' = IF read = "undecodable" THEN FALSE ELSE browser_up
            ELSE /\ SetFrontier(Frontier(popped), url)
                 /\ irregular' = irregular
                 /\ UNCHANGED <<pc, browser_up>>
         /\ UNCHANGED <<cur, fetcher, attempt, backoff, cur_irregular>>
    ELSE /\ proc_log' = Append(proc_log, LogEntry(url, is_pdf, filepath, "processing"))
         /\ SetFrontier(Frontier(popped), url)
         /\ browser_up' = browser_up
         /\ pc' = "fetch"
         /\ cur' = url
         /\ fetcher' = IF is_pdf THEN "binary" ELSE HtmlFetcher
         /\ attempt' = 1
         /\ backoff' = IF ~is_pdf /\ HtmlFetcher = "browser" THEN 2 ELSE 1
         /\ cur_irregular' = FALSE
         /\ UNCHANGED <<saved_count, irregular>>

\* _process_url whose resume check maps the URL without the output folder
ProcessUrlBarePath(url, popped) ==
    ProcessTarget(url, popped, IsPdf(url),
                  IF IsPdf(url) THEN pdf_url_to_filepath(url, "")
                  ELSE url_to_filepath(url, InputAddress, ""))

\* _process_url(url), lines 505-526
ProcessUrl(url, popped) == ProcessTarget(url, popped, IsPdf(url), MappedPath(url))

\* the loop of crawl() reading self.queue[0] with neither popleft() nor the
\* visited check
LoopStepPeek ==
    /\ pc = "loop"
    /\ queue # <<>>
    /\ ~BudgetReached
    /\ visited' = visited \cup {Head(queue)}
    /\ outs' = <<>>
    /\ waits' = <<>>
    /\ ProcessUrl(Head(queue), queue)
    /\ UNCHANGED <<call, config, failed, toc_expanded, disk, earlier>>

\* the loop of crawl() with pop() for popleft(): the newest target first
LoopStepLifo ==
    /\ pc = "loop"
    /\ queue # <<>>
    /\ ~BudgetReached
    /\ LET url == queue[Len(queue)]
       IN  IF url \in visited
           THEN /\ queue' = SubSeq(queue, 1, Len(queue) - 1)
                /\ UNCHANGED <<visited, queued, saved_count, pc, cur, fetcher, attempt,
                               backoff, depth, enq_log, proc_log, outs, waits, irregular,
                               cur_irregular, browser_up>>
           ELSE /\ visited' = visited \cup {url}
                /\ outs' = <<>>
                /\ waits' = <<>>
                /\ ProcessUrl(url, SubSeq(queue, 1, Len(queue) - 1))
    /\ UNCHANGED <<call, config, failed, toc_expanded, disk, earlier>>

\* one iteration of the loop of crawl(), lines 110-122, up to the first
\* transport call of the target
LoopStep ==
    /\ pc = "loop"
    /\ queue # <<>>
    /\ ~BudgetReached
    /\ LET url == Head(queue)
       IN  IF url \in visited
           THEN /\ queue' = Tail(queue)
                /\ UNCHANGED <<visited, queued, saved_count, pc, cur, fetcher, attempt,
                               backoff, depth, enq_log, proc_log, outs, waits, irregular,
                               cur_irregular, browser_up>>
           ELSE /\ visited' = visited \cup {url}
                /\ outs' = <<>>
                /\ waits' = <<>>
                /\ ProcessUrl(url, Tail(queue))
    /\ UNCHANGED <<call, config, failed, toc_expanded, disk, earlier>>

\* the outcome every attempt of a healthy site has: the document, served
Clean(o) ==
    /\ o.kind = "resp" /\ o.status = 200 /\ ~o.empty
    /\ (fetcher # "binary" => o.markup)

\* proc_log with the running target's result set
Logged(result) == [proc_log EXCEPT ![Len(proc_log)].result = result]

\* _download_browser grabs the TOC links of this page (lines 668-670)
GrabsToc ==
    /\ fetcher = "browser"
    /\ RStrip(cur, {"/"}) = RStrip(InputAddress, {"/"})
    /\ ~toc_expanded

\* the frontier after the TOC grab of _download_browser (lines 671-688)
AfterToc(toc_hrefs) ==
    IF GrabsToc /\ toc_hrefs # <<>> THEN QueueToc(toc_hrefs, cur, Frontier(queue))
    ELSE Frontier(queue)

\* _process_html_url without the return of line 593
ExtractsUnsaved(write_ok) ==
    /\ fetcher # "binary"
    /\ (config.recursive \/ config.content_types \in {"pdf", "all"})

\* _process_html_url, lines 595-599: links are extracted from what was saved
Extracts(write_ok) ==
    /\ fetcher # "binary"
    /\ write_ok
    /\ (config.recursive \/ config.content_types \in {"pdf", "all"})

\* the frontier after the link extraction, if there is one
AfterSave(doc, write_ok, fr) ==
    IF Extracts(write_ok) THEN extract_and_queue_links(doc, cur, config, fr) ELSE fr

\* the download method returned the document doc: _download_browser's TOC
\* grab (lines 668-688), then the rest of _process_html_url (584-599) or of
\* _process_pdf_url (543-550); save_page / save_binary return write_ok
Deliver(doc, write_ok) ==
    /\ toc_expanded' = (toc_expanded \/ GrabsToc)
    /\ SetFrontier(AfterSave(doc, write_ok, AfterToc(TocTable[doc][config.limited])), cur)
    /\ saved_count' = IF write_ok THEN saved_count + 1 ELSE saved_count
    /\ disk' = IF write_ok THEN (MappedPath(cur) :> doc) @@ disk ELSE disk
    /\ proc_log' = Logged(IF write_ok THEN "saved" ELSE "unsaved")

\* self.failed keeps the latest target's failure only
RecordedLatest(ledger, url, r) ==
    IF r.next = "fail" THEN (url :> r.reason) ELSE <<>>

\* self.failed written for every download that ends, delivered or not
RecordedAlways(ledger, url, r) == (url :> r.reason) @@ ledger

\* self.failed once the download method has returned None: the assignment
\* self.failed[url] = reason of the branch that gave up, if it made one
Recorded(ledger, url, r) ==
    IF r.next = "fail" THEN (url :> r.reason) @@ ledger ELSE ledger

\* One transport attempt of the running download method and everything up to
\* the next transport call: r is what the method's loop does with outcome o.
Attempt(o, r, doc) ==
    /\ pc = "fetch"
    /\ outs' = Append(outs, o)
    /\ waits' = IF r.wait > 0 THEN Append(waits, r.wait) ELSE waits
    /\ IF r.next = "retry"
       THEN /\ (cur_irregular \/ irregular < MaxIrregular)
            /\ irregular' = IF cur_irregular THEN irregular ELSE irregular + 1
            /\ cur_irregular' = TRUE
            /\ attempt' = r.attempt
            /\ backoff' = r.backoff
            /\ UNCHANGED proc_log
            /\ UNCHANGED <<queue, visited, queued, failed, saved_count, toc_expanded,
                           disk, pc, cur, fetcher, depth, enq_log>>
       ELSE /\ pc' = "loop"
            /\ cur' = ""
            /\ attempt' = 0
            /\ backoff' = 0
            /\ cur_irregular' = FALSE
            /\ UNCHANGED <<visited, fetcher>>
            /\ \E write_ok \in BOOLEAN :
                 LET regular == Clean(o) /\ write_ok
                 IN  /\ (r.next # "ok" => write_ok)
                     /\ (regular \/ cur_irregular \/ irregular < MaxIrregular)
                     /\ irregular' = IF regular \/ cur_irregular THEN irregular
                                     ELSE irregular + 1
                     /\ failed' = Recorded(failed, cur, r)
                     /\ IF r.next = "ok" THEN Deliver(doc, write_ok)
                        ELSE /\ proc_log' = Logged(IF r.next = "fail" THEN "failed"
                                                   ELSE "none")
                             /\ UNCHANGED <<queue, queued, depth, enq_log, saved_count,
                                            toc_expanded, disk>>
    /\ UNCHANGED <<call, config, browser_up, earlier>>

\* an attempt of _download (self.session.get, lines 721-787)
AttemptHttp ==
    /\ fetcher = "http"
    /\ \E o \in HttpOutcomes :
         Attempt(o, download(attempt, backoff, o), IF o.empty THEN EmptyDoc ELSE Page(cur))

\* an attempt of _download_binary (self.session.get, lines 801-842)
AttemptBinary ==
    /\ fetcher = "binary"
    /\ \E o \in BinaryOutcomes :
         Attempt(o, download_binary(attempt, backoff, o),
                 IF o.empty THEN EmptyDoc ELSE PdfBytes)

\* what self._page.content() returns for the response: the rendered document,
\* or the browser's own rendering, without links, of a body that is not markup
Rendered(o, url) ==
    IF o.empty THEN EmptyDoc ELSE IF o.markup THEN Page(url) ELSE Doc(<<>>, <<>>)

\* an attempt of _download_browser (self._page.goto, lines 616-707)
AttemptBrowser ==
    /\ fetcher = "browser"
    /\ \E o \in BrowserOutcomes :
         Attempt(o, download_browser(attempt, backoff, o), Rendered(o, cur))

Next ==
    \/ StartCrawl
    \/ StartCrawlNoBrowser
    \/ StartCrawlLoginAborts
    \/ LoopStep
    \/ AttemptHttp
    \/ AttemptBinary
    \/ AttemptBrowser
    \/ Finish

Spec == Init /\ [][Next]_vars

\* crawl() is one thread that runs until it returns, and the transport
\* always returns: a step that can be taken is taken
FairSpec == Spec /\ WF_vars(Next)

(***************************************************************************)
(* Two runs over one output folder: python -m sitegrabber ... --resume,    *)
(* run again with the same arguments once the first run has ended.  The    *)
(* runs use the HTTP transport.                                            *)
(***************************************************************************)
InitResume ==
    /\ Init
    /\ config.resume
    /\ ~config.browser

\* main() of a second process: Crawler.__init__ and crawl() start over, the
\* output folder is what the first run left
Restart ==
    /\ pc = "done"
    /\ earlier = NoEarlier
    /\ earlier' = [log |-> proc_log, disk |-> disk]
    /\ queue' = <<>>
    /\ visited' = {}
    /\ queued' = {}
    /\ failed' = <<>>
    /\ saved_count' = 0
    /\ toc_expanded' = FALSE
    /\ pc' = "new"
    /\ enq_log' = <<>>
    /\ depth' = <<>>
    /\ proc_log' = <<>>
    /\ outs' = <<>>
    /\ waits' = <<>>
    /\ UNCHANGED <<call, config, browser_up, disk, cur, fetcher, attempt, backoff,
                   irregular, cur_irregular>>

NextResume ==
    \/ StartCrawl
    \/ LoopStep
    \/ AttemptHttp
    \/ AttemptBinary
    \/ Finish
    \/ Restart

ResumeSpec == InitResume /\ [][NextResume]_vars

(***************************************************************************)
(* url_resolver.py on its own: one call of resolve_url or of is_in_scope,  *)
(* its arguments drawn from the sets below, and no crawl.                  *)
(***************************************************************************)
\* base_url and href arguments of resolve_url
CallBases ==
    {"https://x.test/docs/v1", "https://x.test/docs/v1/", "https://x.test/a/a",
     "https://x.test/a/b/a/b", "https://x.test/a/b"}

CallHrefs ==
    {"docs/v1/sub", "v1/sub", "v1", "a/a/c", "a/c", "a/b/a/b/c", "a/b/c", "b/c", "b",
     "sub", "/docs/v1?topic=a", "docs/v1?topic=a", "../x", "#top", "",
     "https://cdn.test/file.pdf", " ", "  ", " sub ", "#", "javascript:void(0)",
     "mailto:a@x.test", "tel:123"}

\* base_url arguments of is_in_scope (scope roots)
CallRoots ==
    {"https://x.test/docs/v1", "https://x.test/docs/v1/", "https://x.test",
     "https://x.test/", "http://x.test/docs/v1", "https://x.test/docs/v1?topic=a",
     "https://x.test/a/a"}

\* url arguments of is_in_scope for the scope root
CallUrls(root) ==
    {root \o "/x", root \o "-extra", root, "",
     "https://x.test/docs/v1/a", "http://x.test/docs/v1/a", "ftp://x.test/docs/v1/a",
     "https://cdn.test/docs/v1/a", "https://x.test:443/docs/v1/a",
     "https://x.test/docs/v10", "https://x.test/docs", "//x.test/docs/v1/a"}

\* a call about to be made
Pending(fn, base, arg) ==
    [fn |-> fn, base |-> base, arg |-> arg, done |-> FALSE, result |-> "", holds |-> FALSE]

ResolverInit ==
    /\ call \in {Pending("resolve_url", b, h) : b \in CallBases, h \in CallHrefs}
          \cup UNION {{Pending("is_in_scope", root, u) : u \in CallUrls(root)} :
                         root \in CallRoots}
    /\ config = [resume |-> FALSE, recursive |-> TRUE, content_types |-> "html",
                 max_pages |-> 0, browser |-> FALSE, login |-> FALSE, limited |-> FALSE]
    /\ disk = <<>>
    /\ queue = <<>>
    /\ visited = {}
    /\ queued = {}
    /\ failed = <<>>
    /\ saved_count = 0
    /\ toc_expanded = FALSE
    /\ browser_up = FALSE
    /\ pc = "new"
    /\ cur = ""
    /\ fetcher = "http"
    /\ attempt = 0
    /\ backoff = 0
    /\ enq_log = <<>>
    /\ depth = <<>>
    /\ proc_log = <<>>
    /\ outs = <<>>
    /\ waits = <<>>
    /\ irregular = 0
    /\ cur_irregular = FALSE
    /\ earlier = NoEarlier

\* resolve_url(base_url, href) is called and returns
CallResolveUrl ==
    /\ call.fn = "resolve_url"
    /\ ~call.done
    /\ call' = [call EXCEPT !.done = TRUE, !.result = resolve_url(call.base, call.arg)]
    /\ UNCHANGED <<config, queue, visited, queued, failed, saved_count, toc_expanded,
                   browser_up, disk, pc, cur, fetcher, attempt, backoff, depth, enq_log,
                   proc_log, outs, waits, irregular, cur_irregular, earlier>>

\* is_in_scope(url, base_url) is called and returns
CallIsInScope ==
    /\ call.fn = "is_in_scope"
    /\ ~call.done
    /\ call' = [call EXCEPT !.done = TRUE, !.holds = is_in_scope(call.arg, call.base)]
    /\ UNCHANGED <<config, queue, visited, queued, failed, saved_count, toc_expanded,
                   browser_up, disk, pc, cur, fetcher, attempt, backoff, depth, enq_log,
                   proc_log, outs, waits, irregular, cur_irregular, earlier>>

ResolverNext ==
    \/ CallResolveUrl
    \/ CallIsInScope

ResolverSpec == ResolverInit /\ [][ResolverNext]_vars

(***************************************************************************)
(* file_saver and html_filter called on their own.                         *)
(***************************************************************************)

\* the paths of the URLs mapped, on the host of the input address
SaverPaths ==
    {"", "/docs/v1", "/docs/v1/", "/docs/v1/sub", "/docs/v1/a/b/", "/docs/v1/..",
     "/docs/v1/../x", "/docs/v1/./x", "/docs/v1/a//b", "/docs/v1/a%2fb",
     "/docs/v1/%2e%2e/x", "/docs/v10", "/other/p", "/docs/v1/a:b", "/docs/v1/ x.",
     "/docs/v1/file.pdf", "/docs/v1/x.PDF", "/docs/v1/a\\b"}

\* their query strings
SaverQueries ==
    {"", "a=b", "a--b", "a&b", "a_b", "a/b", "a:b", ".x=1", "..", "x.pdf", "topic=a",
     "a=1&b=2"}

\* the URL of a path and a query string
SaverUrl(path, query) ==
    "https://x.test" \o path \o (IF query = "" THEN "" ELSE "?" \o query)

\* the documents filtered
FilterDocs ==
    {Doc(h, d) : h \in {<<>>, <<"a">>, <<"a", "b.pdf">>},
                 d \in {<<>>, << <<>> >>, << <<"a">> >>, << <<"a">>, <<"b.pdf">> >>}}
    \cup {EmptyDoc}

\* a call about to be made: of a file_saver function on url and on other,
\* or of filter_html on doc
LibraryCall(fn, url, other, doc, limited) ==
    [fn |-> fn, url |-> url, other |-> other, doc |-> doc, limited |-> limited,
     done |-> FALSE, result |-> "", result_other |-> "", scopes |-> <<>>,
     diagnostic |-> ""]

LibraryInit ==
    /\ call \in {LibraryCall(fn, SaverUrl(p, q), SaverUrl(p, r), EmptyDoc, FALSE) :
                    fn \in {"url_to_filepath", "pdf_url_to_filepath"},
                    p \in SaverPaths, q \in SaverQueries, r \in SaverQueries}
          \cup {LibraryCall("filter_html", "", "", d, l) : d \in FilterDocs, l \in BOOLEAN}
    /\ config = [resume |-> FALSE, recursive |-> TRUE, content_types |-> "html",
                 max_pages |-> 0, browser |-> FALSE, login |-> FALSE, limited |-> FALSE]
    /\ disk = <<>>
    /\ queue = <<>>
    /\ visited = {}
    /\ queued = {}
    /\ failed = <<>>
    /\ saved_count = 0
    /\ toc_expanded = FALSE
    /\ browser_up = FALSE
    /\ pc = "new"
    /\ cur = ""
    /\ fetcher = "http"
    /\ attempt = 0
    /\ backoff = 0
    /\ enq_log = <<>>
    /\ depth = <<>>
    /\ proc_log = <<>>
    /\ outs = <<>>
    /\ waits = <<>>
    /\ irregular = 0
    /\ cur_irregular = FALSE
    /\ earlier = NoEarlier

\* url_to_filepath(url, base_url, output_folder) is called on both URLs
CallUrlToFilepath ==
    /\ call.fn = "url_to_filepath"
    /\ ~call.done
    /\ call' = [call EXCEPT !.done = TRUE,
                            !.result = url_to_filepath(call.url, InputAddress, OutputFolder),
                            !.result_other =
                                url_to_filepath(call.other, InputAddress, OutputFolder)]
    /\ UNCHANGED <<config, queue, visited, queued, failed, saved_count, toc_expanded,
                   browser_up, disk, pc, cur, fetcher, attempt, backoff, depth, enq_log,
                   proc_log, outs, waits, irregular, cur_irregular, earlier>>

\* pdf_url_to_filepath(url, output_folder) is called on both URLs
CallPdfUrlToFilepath ==
    /\ call.fn = "pdf_url_to_filepath"
    /\ ~call.done
    /\ call' = [call EXCEPT !.done = TRUE,
                            !.result = pdf_url_to_filepath(call.url, OutputFolder),
                            !.result_other = pdf_url_to_filepath(call.other, OutputFolder)]
    /\ UNCHANGED <<config, queue, visited, queued, failed, saved_count, toc_expanded,
                   browser_up, disk, pc, cur, fetcher, attempt, backoff, depth, enq_log,
                   proc_log, outs, waits, irregular, cur_irregular, earlier>>

\* filter_html(soup, limitation_type, limitation_text) is called and returns
CallFilterHtml ==
    /\ call.fn = "filter_html"
    /\ ~call.done
    /\ call' = [call EXCEPT !.done = TRUE,
                            !.scopes = filter_html(call.doc, call.limited),
                            !.diagnostic = filter_diagnostic(call.doc, call.limited)]
    /\ UNCHANGED <<config, queue, visited, queued, failed, saved_count, toc_expanded,
                   browser_up, disk, pc, cur, fetcher, attempt, backoff, depth, enq_log,
                   proc_log, outs, waits, irregular, cur_irregular, earlier>>

LibraryNext ==
    \/ CallUrlToFilepath
    \/ CallPdfUrlToFilepath
    \/ CallFilterHtml

LibrarySpec == LibraryInit /\ [][LibraryNext]_vars

(***************************************************************************)
(* Properties of a run (Spec, FairSpec) and of two runs (ResumeSpec)       *)
(***************************************************************************)
\* C1: over a run no URL is appended to the pending queue twice, and the
\* ever-enqueued set holds exactly the URLs appended so far (each is added to
\* it in the step that appends it).
C1_EnqueuedOnce ==
    /\ \A i, j \in 1..Len(enq_log) : enq_log[i] = enq_log[j] => i = j
    /\ queued = {enq_log[i] : i \in 1..Len(enq_log)}

\* the seed page and the topic page, both linking to U_sub, have been
\* saved and link-extracted
C1_Witness ==
    /\ config.recursive
    /\ config.content_types = "all"
    /\ U_sub \in queued
    /\ \E i, j \in 1..Len(proc_log) :
          /\ proc_log[i].url = InputAddress /\ proc_log[i].result = "saved"
          /\ proc_log[j].url = U_topic /\ proc_log[j].result = "saved"

\* C2: over a run _process_url is called at most once per URL, whatever the
\* outcome of the call.
C2_ProcessedOnce ==
    \A i, j \in 1..Len(proc_log) : proc_log[i].url = proc_log[j].url => i = j

\* a finished run in which one target was saved, one skipped by resume and
\* one failed
C2_Witness ==
    /\ pc = "done"
    /\ \E i, j, k \in 1..Len(proc_log) :
          /\ proc_log[i].result = "saved"
          /\ proc_log[j].result = "resumed"
          /\ proc_log[k].result = "failed"

\* C3: no two distinct targets processed in one run are saved to, or
\* resume-matched against, the same mapped output path.
C3_OnePathPerTarget ==
    \A i, j \in 1..Len(proc_log) :
        (/\ i # j
         /\ proc_log[i].result \in {"saved", "resumed"}
         /\ proc_log[j].result \in {"saved", "resumed"})
        => proc_log[i].path # proc_log[j].path

\* C4: every target fetched as a page and saved, other than the seed, is in
\* scope of the starting URL.
C4_PagesInScope ==
    \A i \in 1..Len(proc_log) :
        (/\ proc_log[i].kind = "HTML"
         /\ proc_log[i].result = "saved"
         /\ proc_log[i].url # RStrip(InputAddress, {"/"}))
        => InScope(proc_log[i].url)

\* C5: with max_pages > 0, saved_count never exceeds max_pages, no target is
\* popped once saved_count >= max_pages, and the step that counts a target as
\* saved leaves that target finished (saved or resumed, no fetch pending).
C5_Budget ==
    [][/\ (config.max_pages > 0 => saved_count' <= config.max_pages)
       /\ (visited' # visited
             => ~(config.max_pages > 0 /\ saved_count >= config.max_pages))
       /\ (saved_count' # saved_count
             => /\ pc' # "fetch"
                /\ proc_log'[Len(proc_log')].result \in {"saved", "resumed"})]_vars

\* a run that ended on its budget, a resumed target counted, targets left in
\* the queue
C5_Witness ==
    /\ pc = "done"
    /\ config.max_pages > 0
    /\ saved_count = config.max_pages
    /\ queue # <<>>
    /\ \E i \in 1..Len(proc_log) : proc_log[i].result = "resumed"

\* C6: crawl() terminates: it returns, exits at start-up for want of a
\* browser, or ends on an exception.
C6_Terminates == <>(pc \in {"done", "exit", "aborted"})

\* a run that ended with an empty queue, its last fetch having used all its
\* attempts
C6_Witness ==
    /\ pc = "done"
    /\ queue = <<>>
    /\ Len(outs) = max_retries
    /\ Len(proc_log) >= 3

\* C7: with resume, a target whose mapped path is a non-empty file when it
\* is processed adds exactly one to saved_count and starts no download.
C7_ResumeSkips ==
    [][(/\ pc = "loop"
        /\ visited' # visited
        /\ config.resume
        /\ MappedPath(Head(queue)) \in DOMAIN disk
        /\ ~disk[MappedPath(Head(queue))].empty)
       => (/\ saved_count' = saved_count + 1
           /\ pc' # "fetch"
           /\ outs' = <<>>
           /\ proc_log'[Len(proc_log')].result = "resumed")]_vars

\* an attachment and a page have both been skipped by resume
C7_Witness ==
    /\ saved_count >= 2
    /\ \E i, j \in 1..Len(proc_log) :
          /\ proc_log[i].kind = "PDF" /\ proc_log[i].result = "resumed"
          /\ proc_log[j].kind = "HTML" /\ proc_log[j].result = "resumed"

\* C8 as stated: no target the earlier run fetched and counted as saved is
\* fetched by the next run.
C8_NoRefetch ==
    \A i \in 1..Len(earlier.log), j \in 1..Len(proc_log) :
        (earlier.log[i].result = "saved" /\ proc_log[j].url = earlier.log[i].url)
        => proc_log[j].result = "resumed"

\* C8, amended: no target the earlier run fetched and counted as saved, and
\* whose file that run left non-empty, is fetched by the next run.
C8_NoRefetchOfKept ==
    \A i \in 1..Len(earlier.log), j \in 1..Len(proc_log) :
        (/\ earlier.log[i].result = "saved"
         /\ proc_log[j].url = earlier.log[i].url
         /\ MappedPath(earlier.log[i].url) \in DOMAIN earlier.disk
         /\ ~earlier.disk[MappedPath(earlier.log[i].url)].empty)
        => proc_log[j].result = "resumed"

\* the next run has skipped a page the earlier run fetched and saved
C8_Witness ==
    \E i \in 1..Len(earlier.log), j \in 1..Len(proc_log) :
        /\ earlier.log[i].result = "saved"
        /\ earlier.log[i].kind = "HTML"
        /\ proc_log[j].url = earlier.log[i].url
        /\ proc_log[j].result = "resumed"

\* C9: a download makes at most max_retries transport attempts for a target.
C9_AtMostThree == Len(outs) <= max_retries /\ attempt <= max_retries

\* a download that got a rate-limit response at each of its three attempts
C9_Witness ==
    /\ pc = "loop"
    /\ Len(outs) = max_retries
    /\ \A k \in 1..Len(outs) : outs[k].kind = "resp" /\ outs[k].status = 429

\* C10: a target whose three attempts all returned status 500 ends failed,
\* with the ledger entry "HTTP 500" (so neither saved nor link-extracted).
C10_ServerErrors ==
    (/\ pc \in {"loop", "done"}
     /\ Len(outs) = max_retries
     /\ \A k \in 1..Len(outs) : outs[k].kind = "resp" /\ outs[k].status = 500)
    => (/\ proc_log[Len(proc_log)].result = "failed"
        /\ proc_log[Len(proc_log)].url \in DOMAIN failed
        /\ failed[proc_log[Len(proc_log)].url] = "HTTP 500")

\* C11: a fetch that ended on a failure (a status of 400 or more, or an
\* exception of the transport, at its last attempt) has left a failure-ledger
\* entry keyed by the target's URL.
C11_FailureRecorded ==
    (/\ pc \in {"loop", "done"}
     /\ outs # <<>>
     /\ \/ outs[Len(outs)].kind \in {"conn", "timeout", "other"}
        \/ outs[Len(outs)].kind = "resp" /\ outs[Len(outs)].status >= 400)
    => proc_log[Len(proc_log)].url \in DOMAIN failed

\* C12: an attempt is followed by another attempt only if its outcome was a
\* rate-limit response, a server error, a connection failure or a timeout; a
\* not-found response or any other failure ends the fetch at that attempt.
C12_RetryOnlyTransient ==
    [][(pc = "fetch" /\ pc' = "fetch" /\ outs' # outs)
       => \/ outs'[Len(outs')].kind \in {"conn", "timeout"}
          \/ /\ outs'[Len(outs')].kind = "resp"
             /\ outs'[Len(outs')].status = 429 \/ outs'[Len(outs')].status >= 500]_vars

\* C13: in every fetcher, a rate-limit response that is followed by another
\* attempt is followed by a sleep of 5 times the current backoff, and the
\* retry is one of the max_retries attempts.
C13_RateLimitWait ==
    [][(/\ pc = "fetch" /\ pc' = "fetch" /\ outs' # outs
        /\ outs'[Len(outs')].kind = "resp"
        /\ outs'[Len(outs')].status = 429)
       => (/\ waits' = Append(waits, 5 * backoff)
           /\ attempt' = attempt + 1
           /\ attempt' <= max_retries)]_vars

C15_NonMarkupIsEmpty ==
    [][(/\ pc = "fetch" /\ fetcher # "binary" /\ outs' # outs
        /\ outs'[Len(outs')].kind = "resp"
        /\ ~outs'[Len(outs')].markup)
       => (/\ pc' = "loop"
           /\ proc_log'[Len(proc_log')].result = "none"
           /\ saved_count' = saved_count
           /\ disk' = disk
           /\ queue' = queue
           /\ queued' = queued
           /\ failed' = failed)]_vars

\* C16 as stated: when the write of a target's artifact fails, saved_count,
\* the queue, the ever-enqueued set and the failure ledger are as they were
\* before the step that fetched the artifact.
C16_WriteFailure ==
    [][(pc = "fetch" /\ pc' = "loop" /\ proc_log'[Len(proc_log')].result = "unsaved")
       => (/\ saved_count' = saved_count
           /\ disk' = disk
           /\ failed' = failed
           /\ queue' = queue
           /\ queued' = queued)]_vars

\* C16, amended: when the write fails, saved_count, the output folder and the
\* failure ledger are unchanged and no link is extracted from the content; the
\* only URLs queued are the TOC links the browser fetcher queues while it
\* downloads the starting page.
C16_WriteFailureKeepsToc ==
    [][(pc = "fetch" /\ pc' = "loop" /\ proc_log'[Len(proc_log')].result = "unsaved")
       => (/\ saved_count' = saved_count
           /\ disk' = disk
           /\ failed' = failed
           /\ (~GrabsToc => queue' = queue /\ queued' = queued)
           /\ queued' \ queued \subseteq
                 {Resolved(InputAddress, h) :
                     h \in {TocTable[Page(InputAddress)][config.limited][k] :
                              k \in 1..Len(TocTable[Page(InputAddress)][config.limited])}})]_vars

\* the starting page, which has links, was fetched over HTTP in a recursive
\* run and its write failed: nothing is counted and nothing is queued
C16_Witness ==
    /\ pc = "loop"
    /\ config.recursive
    /\ ~config.browser
    /\ Len(proc_log) = 1
    /\ proc_log[1].result = "unsaved"
    /\ Len(outs) = 1 /\ outs[1].kind = "resp" /\ ~outs[1].empty
    /\ saved_count = 0
    /\ queue = <<>>

\* C17: for a reference with no leading "/" and no scheme whose first
\* segments equal the last segments of the base path, the path of
\* resolve_url's result is the base path followed by the segments of the
\* reference that come after the longest such overlap.
C17_LongestOverlap ==
    LET base_path == RStrip(urlparse(call.base).path, {"/"})
        href_segments == Split(urlparse(call.arg).path, "/")
        hits == OverlapHits(Split(base_path, "/"), href_segments)
        longest == CHOOSE i \in hits : \A j \in hits : j <= i
    IN  (/\ call.fn = "resolve_url"
         /\ call.done
         /\ ~StartsWith(call.arg, "/")
         /\ urlparse(call.arg).scheme = ""
         /\ hits # {})
        => urlparse(call.result).path =
              RStrip(base_path \o "/"
                     \o Join(SubSeq(href_segments, longest + 1, Len(href_segments)), "/"),
                     {"/"})

\* C18 as stated: with the seed https://x.test/docs/v1 and a content policy
\* that permits attachments ("pdf" or "all"), once the seed page (linking to
\* /docs/v1?topic=a, docs/v1/sub and https://cdn.test/file.pdf) has been
\* saved, the URLs enqueued after the seed are exactly
\* https://x.test/docs/v1?topic=a, https://x.test/docs/v1/sub and
\* https://cdn.test/file.pdf.
C18_SeedEnqueuesAnyPolicy ==
    (/\ config.content_types \in {"pdf", "all"}
     /\ ~config.limited
     /\ pc = "loop"
     /\ Len(proc_log) = 1
     /\ proc_log[1].result = "saved"
     /\ outs[Len(outs)].markup /\ ~outs[Len(outs)].empty)
    => enq_log = <<"https://x.test/docs/v1", "https://x.test/docs/v1?topic=a",
                   "https://x.test/docs/v1/sub", "https://cdn.test/file.pdf">>

\* C18, amended: with the seed https://x.test/docs/v1 and the content policy
\* "all" (pages and attachments), once the seed page has been saved, or
\* skipped by resume and read back, the URLs enqueued are the seed and then
\* exactly https://x.test/docs/v1?topic=a, https://x.test/docs/v1/sub and
\* https://cdn.test/file.pdf.
C18_SeedEnqueues ==
    (/\ config.content_types = "all"
     /\ ~config.limited
     /\ pc = "loop"
     /\ Len(proc_log) = 1
     /\ \/ /\ proc_log[1].result = "saved"
           /\ outs[Len(outs)].markup /\ ~outs[Len(outs)].empty
        \/ /\ proc_log[1].result = "resumed"
           /\ config.recursive /\ irregular = 0)
    => enq_log = <<"https://x.test/docs/v1", "https://x.test/docs/v1?topic=a",
                   "https://x.test/docs/v1/sub", "https://cdn.test/file.pdf">>

\* the seed page has been fetched over HTTP and saved, the three links are
\* in the queue in the order of the page
C18_Witness ==
    /\ config.content_types = "all"
    /\ ~config.limited
    /\ ~config.browser
    /\ pc = "loop"
    /\ Len(proc_log) = 1
    /\ proc_log[1].result = "saved"
    /\ queue = <<"https://x.test/docs/v1?topic=a", "https://x.test/docs/v1/sub",
                 "https://cdn.test/file.pdf">>

\* C19 as stated: for every scope root, root + "/x" is in scope and
\* root + "-extra" is out of scope.
C19_SegmentAligned ==
    (call.fn = "is_in_scope" /\ call.done)
    => /\ (call.arg = call.base \o "/x" => call.holds)
       /\ (call.arg = call.base \o "-extra" => ~call.holds)

\* C19, amended: for every scope root, root + "/x" is in scope; for every
\* scope root that has no query and no fragment and does not end in "/",
\* root + "-extra" is out of scope.
C19_SegmentAlignedPath ==
    (call.fn = "is_in_scope" /\ call.done)
    => /\ (call.arg = call.base \o "/x" => call.holds)
       /\ (/\ call.arg = call.base \o "-extra"
           /\ ~EndsWith(call.base, "/")
           /\ urlparse(call.base).query = ""
           /\ urlparse(call.base).fragment = "")
          => ~call.holds

\* is_in_scope has refused https://x.test/docs/v1-extra for the root
\* https://x.test/docs/v1
C19_Witness ==
    /\ call.fn = "is_in_scope"
    /\ call.done
    /\ call.base = "https://x.test/docs/v1"
    /\ call.arg = "https://x.test/docs/v1-extra"
    /\ ~call.holds

\* C20: is_in_scope returns true only for a URL whose scheme is http or
\* https and the scheme of the scope root, and whose host is the host of the
\* scope root.
C20_SameSchemeAndHost ==
    (call.fn = "is_in_scope" /\ call.done /\ call.holds)
    => /\ urlparse(call.arg).scheme \in {"http", "https"}
       /\ urlparse(call.arg).scheme = urlparse(call.base).scheme
       /\ urlparse(call.arg).netloc = urlparse(call.base).netloc

\* C21: two URLs with the same path and distinct query strings, both within
\* the length cap, are mapped by url_to_filepath to distinct file paths.
C21_FoldReversible ==
    (/\ call.fn = "url_to_filepath"
     /\ call.done
     /\ urlparse(call.url).path = urlparse(call.other).path
     /\ urlparse(call.url).query # urlparse(call.other).query
     /\ Len(urlparse(call.url).query) <= QueryCap
     /\ Len(urlparse(call.other).query) <= QueryCap)
    => call.result # call.result_other

\* C22: every component that url_to_filepath or pdf_url_to_filepath places
\* below the output folder is non-empty, is neither "." nor "..", and holds
\* no path separator.
C22_ComponentsInside ==
    (call.fn \in {"url_to_filepath", "pdf_url_to_filepath"} /\ call.done)
    => \A r \in {call.result, call.result_other} :
          /\ StartsWith(r, OutputFolder \o "/")
          /\ LET parts == Split(From(r, Len(OutputFolder) + 2), "/")
             IN /\ Len(parts) >= 1
                /\ \A i \in 1..Len(parts) :
                      /\ parts[i] \notin {"", ".", ".."}
                      /\ ~Contains(parts[i], "\\")

\* url_to_filepath has mapped a URL whose path climbs with ".." and whose
\* query is ".." to a path two components below the output folder
C22_Witness ==
    /\ call.fn = "url_to_filepath"
    /\ call.done
    /\ call.url = "https://x.test/docs/v1/../x?.."
    /\ call.result = "out/x/html.html"

\* C23: url_to_filepath returns the output folder, then the components of
\* the relative portion (none when it is empty), then index.html when the
\* URL has no query and the folded query with .html when it has one; the
\* relative portion and the folded query appear as they are when
\* sanitizing leaves them alone.
C23_Mapping ==
    (call.fn = "url_to_filepath" /\ call.done)
    => LET parsed == urlparse(call.url)
           rel == RelativePath(parsed.path, RStrip(urlparse(InputAddress).path, {"/"}))
           dirs == CleanParts(Split(rel, "/"))
           fold == sanitize_query(parsed.query)
           name == IF parsed.query = "" THEN "index.html"
                   ELSE sanitize_filename(fold \o ".html")
       IN /\ call.result = Join(<<OutputFolder>> \o dirs \o <<name>>, "/")
          /\ (rel = "" /\ parsed.query = "" => call.result = OutputFolder \o "/index.html")
          /\ (rel # "" /\ Join(dirs, "/") = rel /\ parsed.query = ""
                => call.result = OutputFolder \o "/" \o rel \o "/index.html")
          /\ (parsed.query # "" /\ Strip(fold, {".", " "}) = fold
                => EndsWith(call.result, "/" \o fold \o ".html"))
          /\ (parsed.query # "" /\ Strip(fold, {".", " "}) = fold /\ rel = ""
                => call.result = OutputFolder \o "/" \o fold \o ".html")

\* url_to_filepath has mapped a URL with a relative portion and a query
C23_Witness ==
    /\ call.fn = "url_to_filepath"
    /\ call.done
    /\ call.url = "https://x.test/docs/v1/sub?a=1&b=2"
    /\ call.result = "out/sub/a--1_b--2.html"

\* C24: filter_html never returns an empty list; with no attribute text it
\* returns the whole document as the single scope, and with a filter that
\* matches no container it returns the whole document and prints a
\* diagnostic.
C24_NeverEmpty ==
    (call.fn = "filter_html" /\ call.done)
    => /\ call.scopes # <<>>
       /\ (~call.limited => call.scopes = <<call.doc.hrefs>>)
       /\ (call.limited /\ call.doc.divs = <<>>
             => call.scopes = <<call.doc.hrefs>> /\ call.diagnostic # "")

\* filter_html has fallen back to the whole document of two anchors
C24_Witness ==
    /\ call.fn = "filter_html"
    /\ call.done
    /\ call.limited
    /\ call.doc.divs = <<>>
    /\ Len(call.doc.hrefs) = 2
    /\ call.scopes = <<call.doc.hrefs>>

\* C25: whenever crawl() has stopped, by returning or on an exception, the
\* browser has been shut down by _cleanup_browser.
C25_CleanupOwed == pc \in {"done", "aborted"} => ~browser_up

\* C26: when the browser cannot be obtained at start-up the run exits with
\* status 1, and then nothing has been dequeued, fetched or saved: visited is
\* empty, saved_count is 0, the failure ledger is empty; nothing follows the
\* exit.
C26_ExitsBeforeWork ==
    /\ [][(pc = "new" /\ config.browser /\ ~browser_up') => pc' = "exit"]_vars
    /\ [](pc = "exit" => /\ visited = {}
                         /\ saved_count = 0
                         /\ failed = <<>>
                         /\ proc_log = <<>>
                         /\ outs = <<>>)
    /\ [][pc # "exit"]_vars

\* a run that exited at start-up with its seed still queued
C26_Witness ==
    /\ pc = "exit"
    /\ config.browser
    /\ ~browser_up
    /\ queue = <<RStrip(InputAddress, {"/"})>>

\* C27: no outcome of processing a target ends the run: after it the loop
\* goes on, or the run finishes on an empty queue or on its budget.
C27_NoOutcomeAborts == [][(pc \in {"loop", "fetch"}) => (pc' # "aborted")]_vars

\* C28: in non-recursive mode no markup page other than the seed is fetched
\* or saved.
C28_SeedOnly ==
    ~config.recursive
    => \A i \in 1..Len(proc_log) :
          (proc_log[i].kind = "HTML" /\ proc_log[i].result # "resumed")
          => proc_log[i].url = RStrip(InputAddress, {"/"})

\* C29: under the html policy no target found through a link is handled as
\* an attachment; under the pdf policy none is handled as a markup page.
C29_PolicyMatchesDispatch ==
    \A i \in 1..Len(proc_log) :
       proc_log[i].url # RStrip(InputAddress, {"/"})
       => /\ (config.content_types = "html" => proc_log[i].kind # "PDF")
          /\ (config.content_types = "pdf" => proc_log[i].kind # "HTML")

\* C30: targets are processed in the order they were enqueued, and a target
\* enqueued at a greater link depth is never processed before one enqueued
\* at a smaller depth.
C30_Fifo ==
    /\ Len(proc_log) <= Len(enq_log)
    /\ \A i \in 1..Len(proc_log) : proc_log[i].url = enq_log[i]
    /\ \A i, j \in 1..Len(proc_log) :
          i < j => depth[proc_log[i].url] <= depth[proc_log[j].url]

\* a run that has processed the seed, a page linked from it and a page
\* linked from that page
C30_Witness ==
    /\ pc = "done"
    /\ Len(proc_log) >= 3
    /\ \E i, j \in 1..Len(proc_log) :
          depth[proc_log[i].url] = 1 /\ depth[proc_log[j].url] = 2

\* C31: once a target has been processed it is saved (its file written and
\* counted), skipped by resume, or failed with a failure-ledger entry for its
\* URL.
C31_TerminalOutcome ==
    \A i \in 1..Len(proc_log) :
       (i < Len(proc_log) \/ pc # "fetch")
       => /\ proc_log[i].result \in {"saved", "resumed", "failed"}
          /\ (proc_log[i].result = "failed" <=> proc_log[i].url \in DOMAIN failed)

C34_ResumeReadsBack ==
    [][(/\ pc = "loop"
        /\ visited' # visited
        /\ config.resume
        /\ config.recursive
        /\ ~IsPdf(Head(queue))
        /\ file_exists(disk, MappedPath(Head(queue))))
       => LET url == Head(queue)
              doc == disk[MappedPath(url)]
              links == IF RStrip(url, {"/"}) = RStrip(InputAddress, {"/"}) /\ config.limited
                       THEN Flatten(filter_html(doc, TRUE)) ELSE doc.hrefs
          IN  /\ outs' = <<>>
              /\ pc' # "fetch"
              /\ \A i \in 1..Len(links) :
                    (/\ KeepByPolicy(links[i], config.content_types)
                     /\ Resolved(url, links[i]) # ""
                     /\ (LinkIsPdf(Resolved(url, links[i])) \/ InScope(Resolved(url, links[i]))))
                    => Resolved(url, links[i]) \in queued']_vars

\* C35: resolve_url returns no URL for a reference that is empty once its
\* whitespace is trimmed, that is a fragment only, or that starts with
\* javascript:, mailto: or tel:.
C35_RejectsNonNavigable ==
    (/\ call.fn = "resolve_url"
     /\ call.done
     /\ \/ Strip(call.arg, Whitespace) = ""
        \/ StartsWith(call.arg, "#")
        \/ StartsWith(call.arg, "javascript:")
        \/ StartsWith(call.arg, "mailto:")
        \/ StartsWith(call.arg, "tel:"))
    => call.result = ""

\* C36: in every state of a run the URLs of the failure ledger are visited,
\* the visited URLs have been enqueued, the queued URLs have been enqueued,
\* and saved_count plus the number of ledger entries is at most the number
\* of visited targets.
C36_Accounting ==
    /\ DOMAIN failed \subseteq visited
    /\ visited \subseteq queued
    /\ \A i \in 1..Len(queue) : queue[i] \in queued
    /\ saved_count + Cardinality(DOMAIN failed) <= Cardinality(visited)

\* a run with a saved target, a failed target and a target still queued
C36_Witness ==
    /\ saved_count >= 1
    /\ failed # <<>>
    /\ queue # <<>>
    /\ Cardinality(visited) = saved_count + Cardinality(DOMAIN failed)

\* C37: the queue never holds a URL twice nor a URL already visited, so the
\* target crawl() pops is never one it has visited.
C37_QueueClean ==
    /\ \A i, j \in 1..Len(queue) : i # j => queue[i] # queue[j]
    /\ \A i \in 1..Len(queue) : queue[i] \notin visited

\* a run in its loop with two targets processed, one of which linked to a
\* page already enqueued, and two targets pending
C37_Witness ==
    /\ pc = "loop"
    /\ Len(queue) >= 2
    /\ Cardinality(visited) >= 2
    /\ \E i \in 1..Len(proc_log) : proc_log[i].url = U_topic /\ proc_log[i].result = "saved"

\* C38: the step that skips a page by resume, its file read, leaves enqueued
\* what a fetch of the same content followed by a save would leave: the
\* links of the content when the run is recursive or its policy is pdf or
\* all, nothing more otherwise.
C38_ResumeAsFetch ==
    [][(/\ pc = "loop"
        /\ visited' # visited
        /\ config.resume
        /\ ~IsPdf(Head(queue))
        /\ file_exists(disk, MappedPath(Head(queue)))
        /\ irregular' = irregular)
       => queued' = IF config.recursive \/ config.content_types \in {"pdf", "all"}
                    THEN extract_and_queue_links(disk[MappedPath(Head(queue))], Head(queue),
                                                 config, Frontier(Tail(queue))).queued
                    ELSE queued]_vars

\* C39: with no ceiling on the pages saved, a run that has begun to process
\* its targets comes to process every URL it ever enqueued: from some point
\* on the queue is empty and visited is the set of the URLs enqueued.
C39_AllProcessed ==
    (config.max_pages = 0)
    => <>[](visited = {} \/ (queue = <<>> /\ visited = queued))

====
